---- MODULE Spec2Model ----
(***************************************************************************)
(* The retry/backoff engine of the EvalHub HTTP client                     *)
(* (src/src/evalhub/client/base.py): the delay calculator                  *)
(* _calculate_retry_delay and the retry loop of BaseSyncClient._request    *)
(* and BaseAsyncClient._request, whose bodies are the same statement for   *)
(* statement except for the sleep primitive; and the client around them:   *)
(* the resolvers _resolve_auth_token and _resolve_ca_bundle, __init__,     *)
(* close, the with block (__enter__/__exit__, __aenter__/__aexit__) and    *)
(* health.  With them DefaultCallbacks of the adapter                      *)
(* (src/src/evalhub/adapter/callbacks.py): its resolvers, its HTTP client  *)
(* and its two reports.                                                    *)
(*                                                                         *)
(* Specifications.  Spec: one call of _request under every retry policy.   *)
(* DelaySpec: _calculate_retry_delay called directly.  ResolveSpec: the    *)
(* two resolvers called directly on every machine.  ConstructSpec: every   *)
(* combination of credential arguments and files, then one call.           *)
(* ClientSpec: the life of one client, with calls, close, a with block     *)
(* and files changing under it.                                            *)
(* CallbacksResolveSpec: the resolvers of the client and of                *)
(* DefaultCallbacks side by side.  CallbacksSpec: a DefaultCallbacks       *)
(* object and the reports of one job.  EquivSpec: one call on a            *)
(* BaseAsyncClient and one on a BaseSyncClient, answered alike.            *)
(* ConcurrentSpec: several calls in flight on one client.                  *)
(*                                                                         *)
(* Numbers.  The policy's floats are held exactly:                         *)
(*   - retry_initial_delay and retry_max_delay are whole seconds;          *)
(*   - retry_backoff_factor is a power of two, 2^retry_backoff_log2, held  *)
(*     as its binary exponent, so that factors far beyond the range of an  *)
(*     integer (2^512) are states of the model;                            *)
(*   - a returned delay is in ticks, Scale ticks to the second, so that    *)
(*     the jittered delay  delay * (0.5 + random() * 0.5)  is a whole      *)
(*     number of ticks for random() = u / JitterSteps.                     *)
(***************************************************************************)
EXTENDS Integers, Sequences, FiniteSets, TLC

VARIABLES
    max_retries,            \* self.max_retries
    retry_initial_delay,    \* self.retry_initial_delay, seconds
    retry_max_delay,        \* self.retry_max_delay, seconds
    retry_backoff_log2,     \* log2 of self.retry_backoff_factor
    retry_randomization,    \* self.retry_randomization
    state,                  \* where the logical call _request is
    attempt,                \* the loop variable of _request
    last_exception,         \* the local last_exception of _request
    outcomes,               \* what self._client.request did, attempt by attempt
    waits,                  \* the sleeps requested: <<[attempt, delay]>>
    result,                 \* what the caller of _request got
    calc_log,               \* direct calls of _calculate_retry_delay
    fs,                     \* the files the resolvers look for
    args,                   \* the arguments __init__ was called with
    client,                 \* the client object __init__ built
    req,                    \* the arguments of the call of _request
    sent,                   \* the calls of self._client.request, in order
    scope,                  \* the with block around the client, if any
    close_ran,              \* close() has been called
    resolve_log,            \* direct calls of the two resolvers
    log,                    \* what the call in progress has logged
    calls,                  \* logical calls running side by side
    thread,                 \* the call that holds the thread, or NoThread
    cb                      \* a DefaultCallbacks object and its reports

policy == <<max_retries, retry_initial_delay, retry_max_delay,
            retry_backoff_log2, retry_randomization>>
call == <<state, attempt, last_exception, outcomes, waits, result, log>>
vars == <<max_retries, retry_initial_delay, retry_max_delay,
          retry_backoff_log2, retry_randomization,
          state, attempt, last_exception, outcomes, waits, result, calc_log,
          fs, args, client, req, sent, scope, close_ran, resolve_log,
          log, calls, thread, cb>>
others == <<calls, thread, cb>>
lifecycle == <<fs, args, client, scope, close_ran, resolve_log>>

----------------------------------------------------------------------------
(* Bounds of the model *)

MaxRetries == 3
MaxAttempt == 6
MaxCalcs == 2
JitterSteps == 1
SatExp == 12

(* IEEE-754 double: 2.0 ** 1024 is out of range, 2.0 ** 1023 is not. *)
DBL_MAX_EXP == 1024

Scale == 2 * JitterSteps

Min(a, b) == IF a <= b THEN a ELSE b

----------------------------------------------------------------------------
(* The inputs the model draws *)

MaxRetriesValues == -1 .. MaxRetries
InitialDelays == {0, 1, 5}
MaxDelays == {1, 3, 60}
BackoffLog2s == {0, 1, 2, DBL_MAX_EXP \div 2}
Attempts == (0 .. MaxAttempt) \cup {DBL_MAX_EXP - 1, DBL_MAX_EXP}
Booleans == {TRUE, FALSE}
JitterDraws == 0 .. JitterSteps

----------------------------------------------------------------------------
(* _calculate_retry_delay *)

NoException == "None"

(* backoff_factor ** attempt for backoff_factor = 2^backoff_log2: Python   *)
(* raises OverflowError when the power is outside the double range.  A     *)
(* power of 2^SatExp or more is held as 2^SatExp: it exceeds every         *)
(* max_delay of MaxDelays, so min(initial_delay * power, max_delay) is     *)
(* the same for the held value and the true one.                           *)
float_pow(backoff_log2, n) ==
    IF backoff_log2 * n >= DBL_MAX_EXP
    THEN [exc |-> "OverflowError", value |-> 0]
    ELSE [exc |-> NoException, value |-> 2 ^ Min(backoff_log2 * n, SatExp)]

(* Variant: a delay over the cap starts again from initial_delay *)
calculate_retry_delay_cap_restarts(n, initial_delay, max_delay, backoff_log2, randomization, u) ==
    LET p == float_pow(backoff_log2, n)
        delay == IF initial_delay * p.value <= max_delay
                 THEN initial_delay * p.value
                 ELSE Min(initial_delay, max_delay)
    IN  IF p.exc # NoException
        THEN [exc |-> p.exc, delay |-> 0]
        ELSE [exc |-> NoException,
              delay |-> IF randomization
                        THEN delay * (JitterSteps + u)
                        ELSE delay * Scale]

(* Variant: the jitter is a random value between 0 and delay *)
calculate_retry_delay_full_jitter(n, initial_delay, max_delay, backoff_log2, randomization, u) ==
    LET p == float_pow(backoff_log2, n)
        delay == Min(initial_delay * p.value, max_delay)
    IN  IF p.exc # NoException
        THEN [exc |-> p.exc, delay |-> 0]
        ELSE [exc |-> NoException,
              delay |-> IF randomization
                        THEN delay * (2 * u)
                        ELSE delay * Scale]

(* u is the draw of random.random(), u / JitterSteps; the delay is in ticks *)
calculate_retry_delay(n, initial_delay, max_delay, backoff_log2, randomization, u) ==
    LET p == float_pow(backoff_log2, n)
        delay == Min(initial_delay * p.value, max_delay)
    IN  IF p.exc # NoException
        THEN [exc |-> p.exc, delay |-> 0]
        ELSE [exc |-> NoException,
              delay |-> IF randomization
                        THEN delay * (JitterSteps + u)
                        ELSE delay * Scale]

----------------------------------------------------------------------------
(* What one transport attempt, self._client.request(...) followed by       *)
(* response.raise_for_status(), can do                                     *)

None == [kind |-> "None", status |-> 0]
Response(s) == [kind |-> "Response", status |-> s]
TimeoutException == [kind |-> "TimeoutException", status |-> 0]
HTTPStatusError(s) == [kind |-> "HTTPStatusError", status |-> s]
RequestError == [kind |-> "RequestError", status |-> 0]
OverflowError == [kind |-> "OverflowError", status |-> 0]
RuntimeError == [kind |-> "RuntimeError", status |-> 0]

ErrorStatuses == {401, 403, 404, 500}
TransportOutcomes ==
    {Response(200), TimeoutException, RequestError}
        \cup {HTTPStatusError(s) : s \in ErrorStatuses}

----------------------------------------------------------------------------
(* The except clauses of _request: "raise" re-raises the exception caught, *)
(* "retry" goes on to the delay and the sleep                              *)

(* Variant: the budget test is off by one, attempt > self.max_retries *)
except_TimeoutException_after_budget(e, n, retries) ==
    IF n > retries THEN "raise" ELSE "retry"

except_TimeoutException(e, n, retries) ==
    IF n = retries THEN "raise" ELSE "retry"

(* Variant: only 401 and 403 are fatal, any other status is retried *)
except_HTTPStatusError_only_auth_fatal(e, n, retries) ==
    IF e.status = 401 THEN "raise"
    ELSE IF e.status = 403 THEN "raise"
    ELSE IF n = retries THEN "raise"
    ELSE "retry"

except_HTTPStatusError(e, n, retries) ==
    IF e.status = 401 THEN "raise"
    ELSE IF e.status = 403 THEN "raise"
    ELSE IF e.status < 500 \/ n = retries THEN "raise"
    ELSE "retry"

(* Variant: a connection error is re-raised at once *)
except_RequestError_no_retry(e, n, retries) ==
    "raise"

except_RequestError(e, n, retries) ==
    IF n = retries THEN "raise" ELSE "retry"

(* Python picks the first except clause whose class the exception is of *)
except_clause(e, n, retries) ==
    CASE e.kind = "TimeoutException" -> except_TimeoutException(e, n, retries)
      [] e.kind = "HTTPStatusError" -> except_HTTPStatusError(e, n, retries)
      [] e.kind = "RequestError" -> except_RequestError(e, n, retries)

(* What each clause logs before it re-raises: logger.error for a timeout   *)
(* or a connection error on the last attempt and for 401 and 403, nothing  *)
(* for any other status                                                    *)
error_entry(e, n, retries) ==
    [level |-> "error", kind |-> e.kind, status |-> e.status,
     attempt |-> n, of |-> retries, delay |-> 0]

clause_error_log(e, n, retries) ==
    CASE e.kind = "TimeoutException" -> <<error_entry(e, n, retries)>>
      [] e.kind = "RequestError" -> <<error_entry(e, n, retries)>>
      [] e.kind = "HTTPStatusError" ->
             IF e.status \in {401, 403}
             THEN <<error_entry(e, n, retries)>>
             ELSE <<>>

(* logger.warning of a clause that retries: "retrying in {delay}s          *)
(* ({attempt + 1}/{self.max_retries})"                                     *)
clause_warning(e, n, retries, delay) ==
    [level |-> "warning", kind |-> e.kind, status |-> e.status,
     attempt |-> n + 1, of |-> retries, delay |-> delay]

(* The delay each clause computes before it sleeps *)
(* Variant: the timeout clause passes attempt + 1 to the calculator *)
timeout_delay_next_attempt(n, u) ==
    calculate_retry_delay(n + 1, retry_initial_delay, retry_max_delay,
                          retry_backoff_log2, retry_randomization, u)

timeout_delay(n, u) ==
    calculate_retry_delay(n, retry_initial_delay, retry_max_delay,
                          retry_backoff_log2, retry_randomization, u)

status_error_delay(n, u) ==
    calculate_retry_delay(n, retry_initial_delay, retry_max_delay,
                          retry_backoff_log2, retry_randomization, u)

request_error_delay(n, u) ==
    calculate_retry_delay(n, retry_initial_delay, retry_max_delay,
                          retry_backoff_log2, retry_randomization, u)

clause_delay(e, n, u) ==
    CASE e.kind = "TimeoutException" -> timeout_delay(n, u)
      [] e.kind = "HTTPStatusError" -> status_error_delay(n, u)
      [] e.kind = "RequestError" -> request_error_delay(n, u)

----------------------------------------------------------------------------
(* Python values of the constructor: a value is its type and its text, a    *)
(* sequence of characters.  A token such as "tokA" stands for a run of      *)
(* characters that are not whitespace.                                      *)

PyNone == [type |-> "NoneType", chars |-> <<>>]
PyTrue == [type |-> "bool", chars |-> <<"True">>]
PyFalse == [type |-> "bool", chars |-> <<"False">>]
Str(chars) == [type |-> "str", chars |-> chars]
Path(chars) == [type |-> "Path", chars |-> chars]

(* bool(v) for the values above: None, False and "" are false *)
truthy(v) ==
    CASE v.type = "NoneType" -> FALSE
      [] v.type = "bool" -> v = PyTrue
      [] v.type = "str" -> v.chars # <<>>
      [] v.type = "Path" -> TRUE

Whitespace == {" ", "\n"}

RECURSIVE lstrip(_)
lstrip(s) ==
    IF s # <<>> /\ Head(s) \in Whitespace THEN lstrip(Tail(s)) ELSE s

RECURSIVE rstrip(_)
rstrip(s) ==
    IF s # <<>> /\ s[Len(s)] \in Whitespace
    THEN rstrip(SubSeq(s, 1, Len(s) - 1))
    ELSE s

(* str.strip() *)
strip(s) == lstrip(rstrip(s))

(* The file system the resolvers look at: path name -> file *)
NoFile == [exists |-> FALSE, text |-> <<>>]
File(text) == [exists |-> TRUE, text |-> text]

GivenTokenPath == "/tmp/token"
GivenCaPath == "/tmp/ca.crt"
default_token_path == "/var/run/secrets/kubernetes.io/serviceaccount/token"
openshift_ca_path == "/etc/pki/ca-trust/source/anchors/service-ca.crt"
kubernetes_ca_path == "/var/run/secrets/kubernetes.io/serviceaccount/ca.crt"
ca_paths == <<openshift_ca_path, kubernetes_ca_path>>

TokenPaths == {GivenTokenPath, default_token_path}
CaPaths == {GivenCaPath, openshift_ca_path, kubernetes_ca_path}
FsPaths == TokenPaths \cup CaPaths

(* Path(p).exists() and Path(p).read_text() *)
path_exists(files, p) == files[p].exists
read_text(files, p) == files[p].text

(* Variant: the given path is believed without looking at the file system *)
resolve_auth_token_unchecked_path(files, explicit_token, token_path) ==
    IF truthy(explicit_token)
    THEN explicit_token
    ELSE IF truthy(token_path)
         THEN Str(strip(read_text(files, token_path.chars[1])))
         ELSE IF path_exists(files, default_token_path)
              THEN Str(strip(read_text(files, default_token_path)))
              ELSE PyNone

(* Variant: a file that holds no token is skipped and the chain goes on    *)
resolve_auth_token_skipping_blank(files, explicit_token, token_path) ==
    IF truthy(explicit_token)
    THEN explicit_token
    ELSE IF /\ truthy(token_path)
            /\ path_exists(files, token_path.chars[1])
            /\ strip(read_text(files, token_path.chars[1])) # <<>>
         THEN Str(strip(read_text(files, token_path.chars[1])))
         ELSE IF path_exists(files, default_token_path)
              THEN Str(strip(read_text(files, default_token_path)))
              ELSE PyNone

(* _resolve_auth_token *)
resolve_auth_token(files, explicit_token, token_path) ==
    IF truthy(explicit_token)
    THEN explicit_token
    ELSE IF truthy(token_path) /\ path_exists(files, token_path.chars[1])
         THEN Str(strip(read_text(files, token_path.chars[1])))
         ELSE IF path_exists(files, default_token_path)
              THEN Str(strip(read_text(files, default_token_path)))
              ELSE PyNone

(* The loop over ca_paths from index i on *)
RECURSIVE first_existing(_, _)
first_existing(files, i) ==
    IF i > Len(ca_paths)
    THEN PyNone
    ELSE IF path_exists(files, ca_paths[i])
         THEN Path(<<ca_paths[i]>>)
         ELSE first_existing(files, i + 1)

(* Variant: the Kubernetes ca.crt is tried before the OpenShift service-ca *)
resolve_ca_bundle_kubernetes_first(files, ca_bundle_path) ==
    IF truthy(ca_bundle_path) /\ path_exists(files, ca_bundle_path.chars[1])
    THEN Path(ca_bundle_path.chars)
    ELSE IF path_exists(files, kubernetes_ca_path)
         THEN Path(<<kubernetes_ca_path>>)
         ELSE first_existing(files, 1)

(* _resolve_ca_bundle *)
resolve_ca_bundle(files, ca_bundle_path) ==
    IF truthy(ca_bundle_path) /\ path_exists(files, ca_bundle_path.chars[1])
    THEN Path(ca_bundle_path.chars)
    ELSE first_existing(files, 1)

----------------------------------------------------------------------------
(* __init__ of BaseAsyncClient and BaseSyncClient, which differ only in the *)
(* class of the transport client they create                                *)

(* str.rstrip("/") of a URL held as a sequence of pieces *)
RECURSIVE rstrip_slash(_)
rstrip_slash(url) ==
    IF url # <<>> /\ url[Len(url)] = "/"
    THEN rstrip_slash(SubSeq(url, 1, Len(url) - 1))
    ELSE url

api_base(base_url) == rstrip_slash(base_url) \o <<"/api/v1">>

(* Variant: verify_ssl decides alone *)
init_insecure_verify_ssl_decides(insecure, verify_ssl) == ~verify_ssl

(* verify_ssl = False is the older spelling of insecure = True *)
init_insecure(insecure, verify_ssl) == IF ~verify_ssl THEN TRUE ELSE insecure

(* Variant: the CA bundle is resolved whatever the mode *)
init_ca_bundle_always_resolved(files, insecure, ca_bundle_path) ==
    [value |-> resolve_ca_bundle(files, ca_bundle_path), resolver_calls |-> 1]

(* self._ca_bundle, with the number of calls of _resolve_ca_bundle made *)
init_ca_bundle(files, insecure, ca_bundle_path) ==
    IF insecure
    THEN [value |-> PyNone, resolver_calls |-> 0]
    ELSE [value |-> resolve_ca_bundle(files, ca_bundle_path),
          resolver_calls |-> 1]

ContentType == [name |-> "Content-Type", value |-> <<"application/json">>]
Authorization(token) ==
    [name |-> "Authorization", value |-> <<"Bearer ">> \o token.chars]

(* Variant: the header is built whenever the token is not None *)
init_headers_unless_none(auth_token) ==
    IF auth_token # PyNone
    THEN {ContentType, Authorization(auth_token)}
    ELSE {ContentType}

(* headers *)
init_headers(auth_token) ==
    IF truthy(auth_token)
    THEN {ContentType, Authorization(auth_token)}
    ELSE {ContentType}

(* Variant: the resolved bundle is not handed to the transport *)
init_verify_without_bundle(insecure, ca_bundle) ==
    IF insecure THEN PyFalse ELSE PyTrue

(* verify *)
init_verify(insecure, ca_bundle) ==
    IF insecure THEN PyFalse
    ELSE IF truthy(ca_bundle) THEN Str(ca_bundle.chars)
    ELSE PyTrue

(* The client object; http is self._client, the transport client, with the  *)
(* defaults it was created with                                             *)
init(files, a) ==
    LET insecure == init_insecure(a.insecure, a.verify_ssl)
        auth_token == resolve_auth_token(files, a.auth_token, a.auth_token_path)
        ca == init_ca_bundle(files, insecure, a.ca_bundle_path)
    IN  [base_url |-> rstrip_slash(a.base_url),
         api_base |-> api_base(a.base_url),
         auth_token |-> auth_token,
         ca_bundle |-> ca.value,
         ca_resolver_calls |-> ca.resolver_calls,
         http |-> [headers |-> init_headers(auth_token),
                   verify |-> init_verify(insecure, ca.value),
                   is_closed |-> FALSE]]

(* Variant: close() leaves the pool open *)
close_nothing(c) == c

(* close() and aclose() of the transport client *)
close(c) == [c EXCEPT !.http.is_closed = TRUE]

(* What self._client.request(method, url) hands to the transport: the      *)
(* client's default headers and its verify setting.  The file system is    *)
(* not looked at.                                                          *)
client_request_resolving_again(c, files, method, url) ==
    [method |-> method, url |-> url,
     headers |-> init_headers(resolve_auth_token(files, PyNone, PyNone)),
     verify |-> c.http.verify]

client_request(c, files, method, url) ==
    [method |-> method, url |-> url,
     headers |-> c.http.headers,
     verify |-> c.http.verify]

(* What the transport does with a request: a closed client raises *)
transport_outcomes(c) ==
    IF c.http.is_closed THEN {RuntimeError} ELSE TransportOutcomes

(* The three except clauses of _request; any other exception leaves the    *)
(* loop at once                                                            *)
caught(e) == e.kind \in {"TimeoutException", "HTTPStatusError", "RequestError"}

(* Variant: the pool is closed only when the block ended without exception *)
exit_close_unless_exception(c, exc_val) ==
    [client |-> IF exc_val = None THEN close(c) ELSE c, returned |-> PyNone]

(* __exit__ and __aexit__: close, and return None *)
exit(c, exc_val) == [client |-> close(c), returned |-> PyNone]

(* The with statement: a false return of __exit__ lets the exception go on *)
propagated_from(returned, exc_val) ==
    IF truthy(returned) THEN None ELSE exc_val

----------------------------------------------------------------------------
(* The client after construction, no call made yet *)

InitPolicy ==
    /\ max_retries \in MaxRetriesValues
    /\ retry_initial_delay \in InitialDelays
    /\ retry_max_delay \in MaxDelays
    /\ retry_backoff_log2 \in BackoffLog2s
    /\ retry_randomization \in Booleans

InitCall ==
    /\ state = "idle"
    /\ attempt = 0
    /\ last_exception = None
    /\ outcomes = <<>>
    /\ waits = <<>>
    /\ result = None
    /\ log = <<>>

NoRequest == [method |-> "", path |-> <<>>, url |-> <<>>, after_close |-> FALSE]
NoScope == [phase |-> "none", raised |-> None, propagated |-> None]

(* The constructor's arguments other than the retry policy, at their       *)
(* defaults, and a machine with none of the files                          *)
LocalUrl == <<"http://localhost:8080">>
DefaultArgs ==
    [base_url |-> LocalUrl, auth_token |-> PyNone, auth_token_path |-> PyNone,
     ca_bundle_path |-> PyNone, insecure |-> FALSE, verify_ssl |-> TRUE]
EmptyFs == [p \in FsPaths |-> NoFile]

NoThread == 0
NoCalls == <<>>
NoCallbacks == [constructed |-> FALSE]

(* A client constructed with arguments of argset on a machine of fsset    *)
InitClientAlone(argset, fsset) ==
    /\ fs \in fsset
    /\ args \in argset
    /\ client = init(fs, args)
    /\ req = NoRequest
    /\ sent = <<>>
    /\ scope = NoScope
    /\ close_ran = FALSE
    /\ resolve_log = <<>>

(* A client constructed with arguments of argset on a machine of fsset,    *)
(* used by one caller, with no DefaultCallbacks object around              *)
InitClientFrom(argset, fsset) ==
    /\ calls = NoCalls
    /\ thread = NoThread
    /\ cb = NoCallbacks
    /\ InitClientAlone(argset, fsset)

Init ==
    /\ InitPolicy
    /\ InitCall
    /\ calc_log = <<>>
    /\ InitClientFrom({DefaultArgs}, {EmptyFs})

(* _request is called: last_exception = None, and the for loop starts or,  *)
(* with an empty range, falls through to the statements after it           *)
request(method, path) ==
    /\ state = "idle"
    /\ req' = [method |-> method, path |-> path,
               url |-> client.api_base \o path, after_close |-> close_ran]
    /\ last_exception' = None
    /\ IF 0 < max_retries + 1
       THEN /\ state' = "ATTEMPTING"
            /\ attempt' = 0
            /\ result' = result
       ELSE /\ state' = "FATAL_FAILURE"
            /\ attempt' = attempt
            /\ result' = RuntimeError
    /\ UNCHANGED <<policy, others, outcomes, waits, calc_log, sent, lifecycle,
                   log>>

request_get(path) == request("GET", path)

JobsPath == <<"/evaluations/jobs">>
HealthPath == <<"/health">>

(* A call of the API: every resource method goes through _request *)
Request == request_get(JobsPath)

health == request_get(HealthPath)

(* One pass through the try block, and the except clause up to its raise;  *)
(* an exception that no clause names leaves _request as it is              *)
Attempt(o) ==
    /\ state = "ATTEMPTING"
    /\ o \in transport_outcomes(client)
    /\ outcomes' = Append(outcomes, o)
    /\ sent' = Append(sent, client_request(client, fs, req.method, req.url))
    /\ IF o.kind = "Response"
       THEN /\ state' = "SUCCESS"
            /\ result' = o
            /\ last_exception' = last_exception
       ELSE IF ~caught(o)
       THEN /\ state' = "FATAL_FAILURE"
            /\ result' = o
            /\ last_exception' = last_exception
       ELSE /\ last_exception' = o
            /\ IF except_clause(o, attempt, max_retries) = "raise"
               THEN /\ state' = "FATAL_FAILURE"
                    /\ result' = o
               ELSE /\ state' = "RETRYABLE_FAILURE"
                    /\ result' = result
    /\ log' = IF caught(o) /\ except_clause(o, attempt, max_retries) = "raise"
              THEN log \o clause_error_log(o, attempt, max_retries)
              ELSE log
    /\ UNCHANGED <<policy, others, attempt, waits, calc_log, req, lifecycle>>

(* The rest of the except clause: the delay is computed (which may raise)  *)
(* and the sleep is entered                                                *)
Backoff(u) ==
    /\ state = "RETRYABLE_FAILURE"
    /\ retry_randomization \/ u = 0
    /\ LET d == clause_delay(last_exception, attempt, u)
       IN  IF d.exc # NoException
           THEN /\ state' = "FATAL_FAILURE"
                /\ result' = OverflowError
                /\ waits' = waits
                /\ log' = log
           ELSE /\ state' = "SUSPENDED"
                /\ result' = result
                /\ waits' = Append(waits, [attempt |-> attempt, delay |-> d.delay])
                /\ log' = Append(log, clause_warning(last_exception, attempt,
                                                     max_retries, d.delay))
    /\ UNCHANGED <<policy, others, attempt, last_exception, outcomes, calc_log,
                   req, sent, lifecycle>>

(* The sleep is over: the for loop takes its next value, or ends and the   *)
(* statements after the loop raise                                         *)
Wake ==
    /\ state = "SUSPENDED"
    /\ IF attempt + 1 < max_retries + 1
       THEN /\ state' = "ATTEMPTING"
            /\ attempt' = attempt + 1
            /\ result' = result
       ELSE /\ state' = "FATAL_FAILURE"
            /\ attempt' = attempt
            /\ result' = IF last_exception # None THEN last_exception
                         ELSE RuntimeError
    /\ UNCHANGED <<policy, others, last_exception, outcomes, waits, calc_log,
                   req, sent, lifecycle, log>>

Next ==
    \/ Request
    \/ \E o \in TransportOutcomes : Attempt(o)
    \/ \E u \in JitterDraws : Backoff(u)
    \/ Wake

Spec == Init /\ [][Next]_vars

(* Every step of a call is taken in the end: the transport returns or      *)
(* raises, the handler runs, the sleep elapses                             *)
FairSpec == Spec /\ WF_vars(Next)

----------------------------------------------------------------------------
(* _calculate_retry_delay called directly, with a client's policy          *)

DefaultMaxRetries == 3

InitDelay ==
    /\ max_retries = DefaultMaxRetries
    /\ retry_initial_delay \in InitialDelays
    /\ retry_max_delay \in MaxDelays
    /\ retry_backoff_log2 \in BackoffLog2s
    /\ retry_randomization \in Booleans
    /\ InitCall
    /\ calc_log = <<>>
    /\ InitClientFrom({DefaultArgs}, {EmptyFs})

Calculate(n, u) ==
    /\ Len(calc_log) < MaxCalcs
    /\ retry_randomization \/ u = 0
    /\ calc_log' = Append(calc_log,
           [attempt |-> n, u |-> u,
            result |-> calculate_retry_delay(n, retry_initial_delay,
                           retry_max_delay, retry_backoff_log2,
                           retry_randomization, u)])
    /\ UNCHANGED <<policy, others, call, req, sent, lifecycle>>

NextDelay == \E n \in Attempts, u \in JitterDraws : Calculate(n, u)

DelaySpec == InitDelay /\ [][NextDelay]_vars

----------------------------------------------------------------------------
(* _resolve_auth_token and _resolve_ca_bundle called directly, on every    *)
(* machine: each of the five files present or not, the token files empty,  *)
(* blank, or a token with whitespace around it                             *)

MaxResolves == 1

TokenFiles ==
    {NoFile, File(<<>>), File(<<" ", "\n">>), File(<<" ", "tokB", "\n">>),
     File(<<"tokC", " ", "tokD", "\n">>)}
CaFiles == {NoFile, File(<<"cert">>)}

ResolveFs ==
    {f \in [FsPaths -> TokenFiles \cup CaFiles] :
        /\ \A p \in TokenPaths : f[p] \in TokenFiles
        /\ \A p \in CaPaths : f[p] \in CaFiles}

ExplicitTokens == {PyNone, Str(<<>>), Str(<<"tokA">>), Str(<<" ", "tokA">>)}
GivenTokenPaths == {PyNone, Str(<<>>), Str(<<GivenTokenPath>>), Path(<<GivenTokenPath>>)}
GivenCaPaths == {PyNone, Str(<<>>), Str(<<GivenCaPath>>), Path(<<GivenCaPath>>)}

InitResolve ==
    /\ max_retries = DefaultMaxRetries
    /\ retry_initial_delay = 1
    /\ retry_max_delay = 60
    /\ retry_backoff_log2 = 1
    /\ retry_randomization = TRUE
    /\ InitCall
    /\ calc_log = <<>>
    /\ InitClientFrom({DefaultArgs}, ResolveFs)

ResolveAuthToken(explicit_token, token_path) ==
    /\ Len(resolve_log) < MaxResolves
    /\ resolve_log' = Append(resolve_log,
           [fn |-> "_resolve_auth_token",
            explicit |-> explicit_token, path |-> token_path,
            result |-> resolve_auth_token(fs, explicit_token, token_path)])
    /\ UNCHANGED <<policy, others, call, calc_log, req, sent,
                   fs, args, client, scope, close_ran>>

ResolveCaBundle(ca_bundle_path) ==
    /\ Len(resolve_log) < MaxResolves
    /\ resolve_log' = Append(resolve_log,
           [fn |-> "_resolve_ca_bundle",
            explicit |-> PyNone, path |-> ca_bundle_path,
            result |-> resolve_ca_bundle(fs, ca_bundle_path)])
    /\ UNCHANGED <<policy, others, call, calc_log, req, sent,
                   fs, args, client, scope, close_ran>>

NextResolve ==
    \/ \E x \in ExplicitTokens, p \in GivenTokenPaths : ResolveAuthToken(x, p)
    \/ \E p \in GivenCaPaths : ResolveCaBundle(p)

ResolveSpec == InitResolve /\ [][NextResolve]_vars

----------------------------------------------------------------------------
(* Construction with every combination of the credential arguments, on     *)
(* every machine, followed by one call without retries                     *)

ConstructArgs ==
    [base_url : {LocalUrl},
     auth_token : {PyNone, Str(<<>>), Str(<<"tokA">>)},
     auth_token_path : {PyNone, Str(<<GivenTokenPath>>)},
     ca_bundle_path : {PyNone, Str(<<GivenCaPath>>)},
     insecure : Booleans,
     verify_ssl : Booleans]

InitConstruct ==
    /\ max_retries = 0
    /\ retry_initial_delay = 1
    /\ retry_max_delay = 60
    /\ retry_backoff_log2 = 1
    /\ retry_randomization = TRUE
    /\ InitCall
    /\ calc_log = <<>>
    /\ InitClientFrom(ConstructArgs, ResolveFs)

NextConstruct ==
    \/ Request
    \/ \E o \in TransportOutcomes : Attempt(o)

ConstructSpec == InitConstruct /\ [][NextConstruct]_vars

----------------------------------------------------------------------------
(* The life of one client: calls one after the other, close(), a with      *)
(* block around it, and the token and CA files changing under it           *)

MaxSent == 2

ValueError == [kind |-> "ValueError", status |-> 0]

BaseUrls == {LocalUrl, LocalUrl \o <<"/">>}
ClientArgs == {[DefaultArgs EXCEPT !.base_url = u, !.insecure = i] :
                   u \in BaseUrls, i \in Booleans}
ClientFs ==
    {[EmptyFs EXCEPT ![default_token_path] = t, ![kubernetes_ca_path] = c] :
         t \in {NoFile, File(<<"tokC", "\n">>)}, c \in CaFiles}
ClientOutcomes == {Response(200), TimeoutException, HTTPStatusError(404)}

(* What a file may become: the token is rotated or removed, the ca.crt     *)
(* appears or goes                                                         *)
FileChanges ==
    {[path |-> default_token_path, file |-> f] :
         f \in {NoFile, File(<<"tokE", "\n">>)}}
    \cup {[path |-> kubernetes_ca_path, file |-> f] : f \in CaFiles}

InitClient ==
    /\ max_retries \in {0, 1}
    /\ retry_initial_delay = 1
    /\ retry_max_delay = 60
    /\ retry_backoff_log2 = 1
    /\ retry_randomization = FALSE
    /\ InitCall
    /\ calc_log = <<>>
    /\ InitClientFrom(ClientArgs, ClientFs)

(* _request has returned or raised, and the caller goes on *)
Return ==
    /\ state \in {"SUCCESS", "FATAL_FAILURE"}
    /\ Len(sent) < MaxSent
    /\ state' = "idle"
    /\ attempt' = 0
    /\ last_exception' = None
    /\ outcomes' = <<>>
    /\ waits' = <<>>
    /\ result' = None
    /\ log' = <<>>
    /\ UNCHANGED <<policy, others, calc_log, req, sent, lifecycle>>

(* close() called by the user *)
Close ==
    /\ ~close_ran
    /\ client' = close(client)
    /\ close_ran' = TRUE
    /\ UNCHANGED <<policy, others, call, calc_log, req, sent, fs, args, scope,
                   resolve_log>>

(* __enter__ and __aenter__ return self *)
Enter ==
    /\ scope.phase = "none"
    /\ state = "idle"
    /\ scope' = [scope EXCEPT !.phase = "inside"]
    /\ UNCHANGED <<policy, others, call, calc_log, req, sent, fs, args, client,
                   close_ran, resolve_log>>

(* What the block can end with: nothing, an exception of its own, or the   *)
(* exception the last call of _request raised                              *)
BlockExits ==
    {None, ValueError} \cup (IF state = "FATAL_FAILURE" THEN {result} ELSE {})

(* The block is left with exc_val: __exit__ or __aexit__ runs *)
Exit(exc_val) ==
    /\ scope.phase = "inside"
    /\ state \in {"idle", "SUCCESS", "FATAL_FAILURE"}
    /\ exc_val \in BlockExits
    /\ LET x == exit(client, exc_val)
       IN  /\ client' = x.client
           /\ scope' = [phase |-> "left", raised |-> exc_val,
                        propagated |-> propagated_from(x.returned, exc_val)]
    /\ close_ran' = TRUE
    /\ UNCHANGED <<policy, others, call, calc_log, req, sent, fs, args, resolve_log>>

(* A file changes between two calls or during a sleep *)
FileChange(ch) ==
    /\ state \in {"idle", "SUSPENDED"}
    /\ fs[ch.path] # ch.file
    /\ fs' = [fs EXCEPT ![ch.path] = ch.file]
    /\ UNCHANGED <<policy, others, call, calc_log, req, sent, args, client, scope,
                   close_ran, resolve_log>>

NextClient ==
    \/ Request
    \/ health
    \/ \E o \in ClientOutcomes \cup {RuntimeError} : Attempt(o)
    \/ \E u \in JitterDraws : Backoff(u)
    \/ Wake
    \/ Return
    \/ Close
    \/ Enter
    \/ \E e \in ClientOutcomes \cup {None, ValueError} : Exit(e)
    \/ \E ch \in FileChanges : FileChange(ch)

ClientSpec == InitClient /\ [][NextClient]_vars

----------------------------------------------------------------------------
(* Vocabulary of the properties *)

Terminal == state \in {"SUCCESS", "FATAL_FAILURE"}

(* A retryable failure as the specification classifies it: a timeout, an   *)
(* HTTP status error of 500 or more, a connection error                    *)
IsRetryable(o) ==
    \/ o.kind = "TimeoutException"
    \/ o.kind = "RequestError"
    \/ o.kind = "HTTPStatusError" /\ o.status >= 500

IsTransportException(o) ==
    o.kind \in {"TimeoutException", "RequestError", "HTTPStatusError"}

AllRetryable(os) == \A i \in 1 .. Len(os) : IsRetryable(os[i])

Draws == IF retry_randomization THEN JitterDraws ELSE {0}

(* The delays the calculator can return for attempt index n under the      *)
(* client's policy                                                         *)
DelaysFor(n) ==
    LET rs == {calculate_retry_delay(n, retry_initial_delay, retry_max_delay,
                   retry_backoff_log2, retry_randomization, u) : u \in Draws}
    IN  {r.delay : r \in {x \in rs : x.exc = NoException}}

(* The wait recorded i-th was computed with attempt index i - 1 *)
WaitsInOrder ==
    \A i \in 1 .. Len(waits) :
        /\ waits[i].attempt = i - 1
        /\ waits[i].delay \in DelaysFor(i - 1)

----------------------------------------------------------------------------
(* C1: when every transport attempt of a call fails with a retryable       *)
(* error, the call ends after exactly max_retries + 1 attempts and         *)
(* max_retries waits, one between consecutive attempts, and the caller     *)
(* gets the exception of the final attempt.                                *)
C1_RetryCountDiscipline ==
    (max_retries >= 0 /\ Terminal /\ AllRetryable(outcomes)) =>
        /\ Len(outcomes) = max_retries + 1
        /\ Len(waits) = max_retries
        /\ \A i \in 1 .. Len(waits) : waits[i].attempt = i - 1
        /\ result = outcomes[Len(outcomes)]

----------------------------------------------------------------------------
(* The state once the attempts made are k retryable failures and then a   *)
(* response                                                               *)
C2_Returned ==
    LET k == Len(outcomes) - 1
    IN  (/\ k >= 0
         /\ outcomes[k + 1].kind = "Response"
         /\ AllRetryable(SubSeq(outcomes, 1, k))) =>
            /\ k <= max_retries
            /\ state = "SUCCESS"
            /\ result = outcomes[k + 1]
            /\ Len(waits) = k
            /\ WaitsInOrder

(* C2: when the transport fails retryably on attempts 0 .. k-1 and         *)
(* succeeds on attempt k, the caller gets that response after k + 1        *)
(* attempts and the waits delay(0), ..., delay(k-1) in that order, and     *)
(* nothing is attempted or waited for after the success.                   *)
C2_RetryThenSuccess ==
    /\ []C2_Returned
    /\ [][state = "SUCCESS" =>
            /\ state' = "SUCCESS"
            /\ outcomes' = outcomes
            /\ waits' = waits
            /\ result' = result]_vars

C2_Witness ==
    /\ state = "SUCCESS"
    /\ Len(outcomes) = 3
    /\ Len(waits) = 2
    /\ waits[1].delay < waits[2].delay

(* C3: an HTTP status error below 500 ends the call on the attempt it      *)
(* occurs on, whatever budget remains: the caller gets it, and no wait and *)
(* no attempt follow it.                                                   *)
C3_ClientErrorNeverRetried ==
    \A i \in 1 .. Len(outcomes) :
        (outcomes[i].kind = "HTTPStatusError" /\ outcomes[i].status < 500) =>
            /\ i = Len(outcomes)
            /\ state = "FATAL_FAILURE"
            /\ result = outcomes[i]
            /\ Len(waits) = i - 1

C3_Witness ==
    /\ Len(outcomes) = 2
    /\ Len(outcomes) <= max_retries
    /\ IsRetryable(outcomes[1])
    /\ outcomes[2] = HTTPStatusError(404)
    /\ state = "FATAL_FAILURE"

(* C4: a call with max_retries >= 0 always ends: it can take a step until  *)
(* it has ended, it makes at most max_retries + 1 attempts, and the caller *)
(* gets a response or the exception the transport raised.                  *)
C4_EveryCallTerminates ==
    max_retries >= 0 =>
        /\ Terminal \/ ENABLED Next
        /\ Len(outcomes) <= max_retries + 1
        /\ Terminal =>
            /\ result.kind = "Response" \/ IsTransportException(result)
            /\ result = outcomes[Len(outcomes)]

(* C5: the three retryable classes are treated alike and share one budget: *)
(* the wait after attempt i is delay(i) whatever class failed it, the      *)
(* number of waits follows from the number of attempts alone, a retryable  *)
(* failure of any class reaches the caller only on attempt max_retries,    *)
(* and no mix of classes gets more than max_retries + 1 attempts.          *)
C5_SameTreatment ==
    /\ \A i \in 1 .. Len(waits) :
        /\ IsRetryable(outcomes[i])
        /\ waits[i].attempt = i - 1
        /\ waits[i].delay \in DelaysFor(i - 1)
    /\ Len(outcomes) <= max_retries + 1
    /\ state \in {"ATTEMPTING", "SUSPENDED"} => Len(waits) = Len(outcomes)
    /\ (state \in {"RETRYABLE_FAILURE", "SUCCESS", "FATAL_FAILURE"}
            /\ Len(outcomes) > 0) => Len(waits) = Len(outcomes) - 1
    /\ (/\ Terminal
        /\ Len(outcomes) > 0
        /\ IsRetryable(outcomes[Len(outcomes)])
        /\ IsTransportException(result)) => Len(outcomes) = max_retries + 1

C5_Witness ==
    /\ Len(outcomes) = 3
    /\ {outcomes[i].kind : i \in 1 .. 3}
           = {"TimeoutException", "HTTPStatusError", "RequestError"}
    /\ Len(waits) = 3
    /\ waits[1].delay < waits[2].delay
    /\ waits[2].delay < waits[3].delay

(* The steps the state machine of the retry loop allows *)
C6_Step ==
    \/ /\ state = "idle"
       /\ state' = "ATTEMPTING"
       /\ attempt' = 0
    \/ /\ state = "ATTEMPTING"
       /\ state' = "SUCCESS"
       /\ attempt' = attempt
    \/ /\ state = "ATTEMPTING"
       /\ state' = "FATAL_FAILURE"
       /\ attempt' = attempt
       /\ ~IsRetryable(outcomes'[Len(outcomes')]) \/ attempt = max_retries
    \/ /\ state = "ATTEMPTING"
       /\ state' = "RETRYABLE_FAILURE"
       /\ attempt' = attempt
       /\ attempt < max_retries
    \/ /\ state = "RETRYABLE_FAILURE"
       /\ state' = "SUSPENDED"
       /\ attempt' = attempt
    \/ /\ state = "SUSPENDED"
       /\ state' = "ATTEMPTING"
       /\ attempt' = attempt + 1

(* C6: for max_retries >= 0 the call moves only along                      *)
(* ATTEMPTING -> SUCCESS, ATTEMPTING -> FATAL_FAILURE (non-retryable       *)
(* error, or attempt = max_retries), ATTEMPTING -> RETRYABLE_FAILURE ->    *)
(* SUSPENDED -> ATTEMPTING (attempt < max_retries, attempt + 1 on the      *)
(* return); it starts in ATTEMPTING with attempt 0; attempt stays in       *)
(* 0 .. max_retries; SUCCESS and FATAL_FAILURE are left by no step.        *)
C6_StateMachine ==
    [][max_retries >= 0 =>
        /\ C6_Step
        /\ 0 <= attempt' /\ attempt' <= max_retries]_vars

----------------------------------------------------------------------------
(* C7: every call of _calculate_retry_delay returns, and what it returns   *)
(* is at most max_delay, with jitter or without, for max_delay below       *)
(* initial_delay and for very large attempt indices.                       *)
C7_DelayNeverExceedsMax ==
    \A i \in 1 .. Len(calc_log) :
        /\ calc_log[i].result.exc = NoException
        /\ calc_log[i].result.delay <= retry_max_delay * Scale

(* min(initial_delay * backoff_factor^attempt, max_delay) over the reals,  *)
(* in seconds: once the power is 2^SatExp or more the product is over      *)
(* every max_delay of MaxDelays unless initial_delay is 0                  *)
RealBase(n) ==
    IF retry_initial_delay = 0 THEN 0
    ELSE IF retry_backoff_log2 * n >= SatExp THEN retry_max_delay
    ELSE Min(retry_initial_delay * 2 ^ (retry_backoff_log2 * n), retry_max_delay)

RealProductReachesCap(n) ==
    /\ retry_initial_delay # 0
    /\ \/ retry_backoff_log2 * n >= SatExp
       \/ retry_initial_delay * 2 ^ (retry_backoff_log2 * n) >= retry_max_delay

(* The delays in seconds for initial_delay 1, factor 2, max_delay 60 *)
C8_Table == <<1, 2, 4, 8, 16, 32, 60>>

(* C8: without jitter the delay is min(initial_delay *                     *)
(* backoff_factor^attempt, max_delay) for every attempt; for initial_delay *)
(* 1, factor 2, max_delay 60 it is 1, 2, 4, 8, 16, 32 for attempts 0 .. 5  *)
(* and 60 for attempt 6; equal arguments give equal delays.                *)
C8_DeterministicFormula ==
    ~retry_randomization =>
        \A i \in 1 .. Len(calc_log) :
            LET c == calc_log[i]
            IN  /\ c.result.exc = NoException
                /\ c.result.delay = RealBase(c.attempt) * Scale
                /\ (/\ retry_initial_delay = 1
                    /\ retry_backoff_log2 = 1
                    /\ retry_max_delay = 60
                    /\ c.attempt <= 6) =>
                        c.result.delay = C8_Table[c.attempt + 1] * Scale
                /\ \A j \in 1 .. Len(calc_log) :
                       calc_log[j].attempt = c.attempt =>
                           calc_log[j].result = c.result

(* C9: without jitter (and with backoff_factor >= 1, as every factor of    *)
(* the model is) the delay does not decrease with the attempt index: of    *)
(* two calls that return, the one with the larger attempt returns at       *)
(* least as much.                                                          *)
C9_MonotonicInAttempt ==
    ~retry_randomization =>
        \A i, j \in 1 .. Len(calc_log) :
            (/\ calc_log[i].attempt <= calc_log[j].attempt
             /\ calc_log[i].result.exc = NoException
             /\ calc_log[j].result.exc = NoException) =>
                 calc_log[i].result.delay <= calc_log[j].result.delay

C9_Witness ==
    /\ ~retry_randomization
    /\ Len(calc_log) = 2
    /\ calc_log[1].attempt > calc_log[2].attempt
    /\ calc_log[1].result.exc = NoException
    /\ calc_log[1].result.delay = retry_max_delay * Scale
    /\ calc_log[2].result.delay < calc_log[1].result.delay
    /\ calc_log[2].result.delay > retry_initial_delay * Scale

(* C10: without jitter, at every attempt with initial_delay *              *)
(* backoff_factor^attempt >= max_delay the delay is max_delay exactly, so  *)
(* also at every later attempt, and from attempt 0 on when max_delay is    *)
(* below initial_delay.                                                    *)
C10_CapEnforced ==
    ~retry_randomization =>
        \A i \in 1 .. Len(calc_log) :
            LET c == calc_log[i]
            IN  (RealProductReachesCap(c.attempt) \/ retry_max_delay < retry_initial_delay) =>
                    /\ c.result.exc = NoException
                    /\ c.result.delay = retry_max_delay * Scale

----------------------------------------------------------------------------
(* Vocabulary of the resolver properties *)

NonEmptyString(v) == v.type = "str" /\ v.chars # <<>>

(* A path argument that names a path: neither None nor "" *)
PathGiven(v) == v.type = "Path" \/ NonEmptyString(v)

GivenFileExists(v) == PathGiven(v) /\ fs[v.chars[1]].exists

(* r is text without the whitespace at its two ends: a slice of text that  *)
(* neither starts nor ends with whitespace and leaves out only whitespace  *)
IsStripped(r, text) ==
    \E i \in 1 .. Len(text) + 1 : \E j \in i - 1 .. Len(text) :
        /\ r = SubSeq(text, i, j)
        /\ \A k \in 1 .. i - 1 : text[k] \in Whitespace
        /\ \A k \in j + 1 .. Len(text) : text[k] \in Whitespace
        /\ r # <<>> => r[1] \notin Whitespace /\ r[Len(r)] \notin Whitespace

IsStrippedTextOf(v, p) == v.type = "str" /\ IsStripped(v.chars, fs[p].text)

TokenCalls == {i \in 1 .. Len(resolve_log) : resolve_log[i].fn = "_resolve_auth_token"}
CaCalls == {i \in 1 .. Len(resolve_log) : resolve_log[i].fn = "_resolve_ca_bundle"}

(* C12: _resolve_auth_token returns the explicit token if it is not empty; *)
(* else the stripped text of the file at the given path if that file       *)
(* exists; else the stripped text of the service-account token file if it  *)
(* exists; else None.  Every combination of arguments and files returns.   *)
C12_TokenPriorityChain ==
    \A i \in TokenCalls :
        LET e == resolve_log[i]
        IN  IF NonEmptyString(e.explicit)
            THEN e.result = e.explicit
            ELSE IF GivenFileExists(e.path)
            THEN IsStrippedTextOf(e.result, e.path.chars[1])
            ELSE IF fs[default_token_path].exists
            THEN IsStrippedTextOf(e.result, default_token_path)
            ELSE e.result = PyNone

(* An empty explicit token and a given but missing path: the call falls    *)
(* through to the service-account file and strips its text                 *)
C12_Witness ==
    \E i \in TokenCalls :
        /\ resolve_log[i].explicit = Str(<<>>)
        /\ PathGiven(resolve_log[i].path)
        /\ ~fs[GivenTokenPath].exists
        /\ fs[default_token_path] = File(<<"tokC", " ", "tokD", "\n">>)
        /\ resolve_log[i].result = Str(<<"tokC", " ", "tokD">>)

(* C13: _resolve_ca_bundle returns the explicit path if given and          *)
(* existing; otherwise the first existing path of the well-known list, the *)
(* OpenShift service-ca before the Kubernetes ca.crt; otherwise None.      *)
C13_CaPriorityChain ==
    \A i \in CaCalls :
        LET e == resolve_log[i]
        IN  IF GivenFileExists(e.path)
            THEN e.result = Path(e.path.chars)
            ELSE IF fs[openshift_ca_path].exists
            THEN e.result = Path(<<openshift_ca_path>>)
            ELSE IF fs[kubernetes_ca_path].exists
            THEN e.result = Path(<<kubernetes_ca_path>>)
            ELSE e.result = PyNone

(* A given but missing path with both well-known files present *)
C13_Witness ==
    \E i \in CaCalls :
        /\ PathGiven(resolve_log[i].path)
        /\ ~fs[GivenCaPath].exists
        /\ fs[openshift_ca_path].exists
        /\ fs[kubernetes_ca_path].exists
        /\ resolve_log[i].result = Path(<<openshift_ca_path>>)

----------------------------------------------------------------------------
(* Vocabulary of the construction properties *)

AuthorizationOf(headers) == {h \in headers : h.name = "Authorization"}

(* The verify setting of a client that verifies: the bundle, or the        *)
(* platform's trust store                                                  *)
VerifyingSetting ==
    IF client.ca_bundle # PyNone
    THEN client.http.verify = Str(client.ca_bundle.chars)
    ELSE client.http.verify = PyTrue

(* Insecure mode was requested: insecure = True, or its older spelling     *)
(* verify_ssl = False                                                      *)
InsecureRequested == args.insecure \/ ~args.verify_ssl

(* C14: a client constructed in insecure mode never invokes the CA         *)
(* resolver, stores no CA bundle and has TLS verification disabled,        *)
(* whatever CA path was passed and whatever CA files exist.                *)
C14_InsecureSkipsCaResolution ==
    InsecureRequested =>
        /\ client.ca_resolver_calls = 0
        /\ client.ca_bundle = PyNone
        /\ client.http.verify = PyFalse
        /\ \A i \in 1 .. Len(sent) : sent[i].verify = PyFalse

C14_Witness ==
    /\ args.insecure
    /\ args.verify_ssl
    /\ args.ca_bundle_path = Str(<<GivenCaPath>>)
    /\ \A p \in CaPaths : fs[p].exists
    /\ Len(sent) = 1
    /\ sent[1].verify = PyFalse

(* C15: verification is disabled only when insecure mode was requested;    *)
(* for every other construction the verify setting is the resolved CA      *)
(* bundle path when one was resolved and true (the platform trust store)   *)
(* otherwise, never false, and that is what every request uses.            *)
C15_VerifyDisabledOnlyWhenInsecure ==
    /\ client.http.verify = PyFalse => InsecureRequested
    /\ ~InsecureRequested =>
           /\ VerifyingSetting
           /\ client.http.verify # PyFalse
           /\ \A i \in 1 .. Len(sent) : sent[i].verify = client.http.verify

(* The given CA path is missing and the Kubernetes ca.crt is the only      *)
(* well-known file: it is what the transport verifies with                 *)
C15_Witness ==
    /\ ~InsecureRequested
    /\ args.ca_bundle_path = Str(<<GivenCaPath>>)
    /\ ~fs[GivenCaPath].exists
    /\ fs[kubernetes_ca_path].exists
    /\ ~fs[openshift_ca_path].exists
    /\ client.http.verify = Str(<<kubernetes_ca_path>>)
    /\ Len(sent) = 1

(* C16: the default headers hold Authorization: Bearer <token> exactly     *)
(* when token resolution yielded a token (a string that is not empty),     *)
(* with <token> the resolved value; when none was resolved no request      *)
(* carries an Authorization header.                                        *)
C16_BearerHeaderIffToken ==
    /\ NonEmptyString(client.auth_token) <=>
           AuthorizationOf(client.http.headers) # {}
    /\ \A h \in AuthorizationOf(client.http.headers) :
           h.value = <<"Bearer ">> \o client.auth_token.chars
    /\ ~NonEmptyString(client.auth_token) =>
           \A i \in 1 .. Len(sent) : AuthorizationOf(sent[i].headers) = {}

(* A token read from the given file, stripped, is sent as the bearer       *)
C16_Witness ==
    /\ args.auth_token = Str(<<>>)
    /\ fs[GivenTokenPath] = File(<<" ", "tokB", "\n">>)
    /\ client.auth_token = Str(<<"tokB">>)
    /\ Len(sent) = 1
    /\ AuthorizationOf(sent[1].headers) =
           {[name |-> "Authorization", value |-> <<"Bearer ", "tokB">>]}

----------------------------------------------------------------------------
(* Vocabulary of the life-cycle properties *)

IsException(o) == o.kind \notin {"None", "Response"}

Credentials == <<client.auth_token, client.ca_bundle,
                 client.http.headers, client.http.verify>>

LastSent == sent[Len(sent)]

(* C17: no step of the client's life (a call, an attempt with any outcome, *)
(* health, close, entering or leaving a with block) and no change of the   *)
(* token or CA files changes the bearer token, the TLS setting or the      *)
(* retry policy, and every attempt sends the headers and the verify        *)
(* setting fixed at construction.                                          *)
C17_FixedAtConstruction ==
    [][/\ Credentials' = Credentials
       /\ policy' = policy
       /\ sent' # sent =>
              /\ sent'[Len(sent')].headers = client.http.headers
              /\ sent'[Len(sent')].verify = client.http.verify]_vars

(* The token file was rotated and the ca.crt appeared after construction;  *)
(* the second attempt of a call, made after the change, still sends the    *)
(* old token and verifies as before                                        *)
C17_Witness ==
    /\ client.auth_token = Str(<<"tokC">>)
    /\ client.http.verify = PyTrue
    /\ fs[default_token_path] = File(<<"tokE", "\n">>)
    /\ fs[kubernetes_ca_path].exists
    /\ state = "SUCCESS"
    /\ Len(outcomes) = 2
    /\ LastSent.verify = PyTrue
    /\ AuthorizationOf(LastSent.headers) =
           {[name |-> "Authorization", value |-> <<"Bearer ", "tokC">>]}

(* C18: health() sends GET to <base_url>/health, outside the /api/v1       *)
(* prefix of the other calls, and on success returns the response's body.  *)
C18_HealthOutsideApiPrefix ==
    (req.path = HealthPath /\ Len(outcomes) > 0) =>
        /\ LastSent.method = "GET"
        /\ LastSent.url = client.base_url \o <<"/health">>
        /\ state = "SUCCESS" => result.kind = "Response"

(* C19: once close() has run, by a call or by leaving a with block, every  *)
(* later call of _request or health ends in an error and never in a        *)
(* response, and no step reopens the client.                               *)
C19_UseAfterCloseIsAnError ==
    /\ [](req.after_close =>
              /\ state # "SUCCESS"
              /\ state = "FATAL_FAILURE" => IsException(result))
    /\ [](close_ran => client.http.is_closed)
    /\ [][client.http.is_closed => client'.http.is_closed]_vars

(* A health call made after the with block was left raises at once *)
C19_Witness ==
    /\ scope.phase = "left"
    /\ req.after_close
    /\ req.path = HealthPath
    /\ state = "FATAL_FAILURE"
    /\ outcomes = <<RuntimeError>>
    /\ result = RuntimeError

(* C20: leaving a with block, normally or through an exception raised      *)
(* inside it, closes the connection pool, and the exception goes on to the *)
(* caller.                                                                 *)
C20_ScopeExitCloses ==
    scope.phase = "left" =>
        /\ client.http.is_closed
        /\ scope.propagated = scope.raised

(* The block is left by the TimeoutException that _request raised after    *)
(* its retries                                                             *)
C20_Witness ==
    /\ scope.phase = "left"
    /\ scope.raised = TimeoutException
    /\ scope.propagated = TimeoutException
    /\ state = "FATAL_FAILURE"
    /\ outcomes = <<TimeoutException, TimeoutException>>
    /\ client.http.is_closed

----------------------------------------------------------------------------
(* Vocabulary of the properties of the loop's ends and of its log *)

(* The statements after the for loop run: the range was empty, or the loop *)
(* ended after a sleep                                                     *)
PostLoopStep ==
    /\ state \in {"idle", "SUSPENDED"}
    /\ state' = "FATAL_FAILURE"

LastOutcome == outcomes[Len(outcomes)]

(* C24 as the state machine reads it: every retryable failure (a timeout,  *)
(* a status >= 500 or a connection error with retries left) emits a        *)
(* warning that holds the computed delay and the attempt counters, and     *)
(* the call goes on to its wait as it would without the log.               *)
C24_RetryableFailureLogged ==
    [][state = "RETRYABLE_FAILURE" =>
           /\ state' = "SUSPENDED"
           /\ Len(log') = Len(log) + 1
           /\ log'[Len(log')].level = "warning"
           /\ log'[Len(log')].attempt = attempt + 1
           /\ log'[Len(log')].of = max_retries
           /\ log'[Len(log')].delay = waits'[Len(waits')].delay]_vars

----------------------------------------------------------------------------
(* The legacy verify_ssl flag and the blank token file, under               *)
(* ConstructSpec                                                            *)

(* What a client holds about TLS *)
TlsState(c) == <<c.ca_bundle, c.ca_resolver_calls, c.http.verify>>

(* The client the same arguments give with insecure = True and the flag    *)
(* verify_ssl left at its default                                           *)
InsecureTwin == init(fs, [args EXCEPT !.insecure = TRUE, !.verify_ssl = TRUE])

VerificationEnabled ==
    /\ client.http.verify # PyFalse
    /\ \A i \in 1 .. Len(sent) : sent[i].verify # PyFalse

(* C28: verify_ssl can only weaken TLS. verify_ssl = false gives the TLS   *)
(* state of insecure = true whatever insecure is, verify_ssl = true never  *)
(* re-enables verification when insecure = true, and verification is       *)
(* enabled exactly when insecure = false and verify_ssl = true.            *)
C28_VerifySslOnlyWeakens ==
    /\ ~args.verify_ssl => TlsState(client) = TlsState(InsecureTwin)
    /\ (args.insecure /\ args.verify_ssl) =>
           /\ client.http.verify = PyFalse
           /\ \A i \in 1 .. Len(sent) : sent[i].verify = PyFalse
    /\ VerificationEnabled <=> (~args.insecure /\ args.verify_ssl)

(* verify_ssl = False alone, on a machine with every CA file: the request  *)
(* went out unverified and no bundle was looked for                        *)
C28_Witness ==
    /\ ~args.insecure
    /\ ~args.verify_ssl
    /\ args.ca_bundle_path = Str(<<GivenCaPath>>)
    /\ \A p \in CaPaths : fs[p].exists
    /\ client.ca_resolver_calls = 0
    /\ Len(sent) = 1
    /\ sent[1].verify = PyFalse

(* Nothing but whitespace *)
Blank(text) == \A i \in 1 .. Len(text) : text[i] \in Whitespace

(* No usable explicit token, and the file at the given path exists and     *)
(* holds no token                                                          *)
BlankGivenTokenFile ==
    /\ args.auth_token \in {PyNone, Str(<<>>)}
    /\ GivenFileExists(args.auth_token_path)
    /\ Blank(fs[args.auth_token_path.chars[1]].text)

(* C29: an existing token file at the given path that is empty or holds    *)
(* only whitespace stops the chain: the resolved token is the empty string *)
(* whatever the well-known file holds, and the client sends no             *)
(* Authorization header.                                                   *)
C29_BlankTokenFileStopsChain ==
    BlankGivenTokenFile =>
        /\ client.auth_token = Str(<<>>)
        /\ AuthorizationOf(client.http.headers) = {}
        /\ \A i \in 1 .. Len(sent) : AuthorizationOf(sent[i].headers) = {}

(* The well-known file holds a token, the given file only whitespace       *)
C29_Witness ==
    /\ BlankGivenTokenFile
    /\ fs[GivenTokenPath] = File(<<" ", "\n">>)
    /\ fs[default_token_path] = File(<<" ", "tokB", "\n">>)
    /\ client.auth_token = Str(<<>>)
    /\ Len(sent) = 1
    /\ AuthorizationOf(sent[1].headers) = {}

----------------------------------------------------------------------------
(* DefaultCallbacks (adapter/callbacks.py): its own credential resolvers   *)

openshift_sa_ca_path == "/var/run/secrets/kubernetes.io/serviceaccount/service-ca.crt"
DefaultCallbacks_ca_paths == <<openshift_ca_path, openshift_sa_ca_path, kubernetes_ca_path>>

CallbacksFsPaths == FsPaths \cup {openshift_sa_ca_path}

(* DefaultCallbacks._resolve_auth_token *)
DefaultCallbacks_resolve_auth_token(files, explicit_token, token_path) ==
    IF truthy(explicit_token)
    THEN explicit_token
    ELSE IF truthy(token_path) /\ path_exists(files, token_path.chars[1])
         THEN Str(strip(read_text(files, token_path.chars[1])))
         ELSE IF path_exists(files, default_token_path)
              THEN Str(strip(read_text(files, default_token_path)))
              ELSE PyNone

(* The loop over DefaultCallbacks' ca_paths from index i on *)
RECURSIVE DefaultCallbacks_first_existing(_, _)
DefaultCallbacks_first_existing(files, i) ==
    IF i > Len(DefaultCallbacks_ca_paths)
    THEN PyNone
    ELSE IF path_exists(files, DefaultCallbacks_ca_paths[i])
         THEN Path(<<DefaultCallbacks_ca_paths[i]>>)
         ELSE DefaultCallbacks_first_existing(files, i + 1)

(* Variant: the service account's service-ca.crt is tried last *)
DefaultCallbacks_resolve_ca_bundle_sa_last(files, ca_bundle_path) ==
    IF truthy(ca_bundle_path) /\ path_exists(files, ca_bundle_path.chars[1])
    THEN Path(ca_bundle_path.chars)
    ELSE IF path_exists(files, openshift_ca_path)
         THEN Path(<<openshift_ca_path>>)
         ELSE IF path_exists(files, kubernetes_ca_path)
              THEN Path(<<kubernetes_ca_path>>)
              ELSE DefaultCallbacks_first_existing(files, 1)

(* DefaultCallbacks._resolve_ca_bundle *)
DefaultCallbacks_resolve_ca_bundle(files, ca_bundle_path) ==
    IF truthy(ca_bundle_path) /\ path_exists(files, ca_bundle_path.chars[1])
    THEN Path(ca_bundle_path.chars)
    ELSE DefaultCallbacks_first_existing(files, 1)

----------------------------------------------------------------------------
(* Both pairs of resolvers on the same machine with the same arguments     *)

CallbacksResolveFs ==
    {f \in [CallbacksFsPaths -> TokenFiles \cup CaFiles] :
        /\ \A p \in TokenPaths : f[p] \in TokenFiles
        /\ \A p \in CallbacksFsPaths \ TokenPaths : f[p] \in CaFiles}

InitCallbacksResolve ==
    /\ max_retries = DefaultMaxRetries
    /\ retry_initial_delay = 1
    /\ retry_max_delay = 60
    /\ retry_backoff_log2 = 1
    /\ retry_randomization = TRUE
    /\ InitCall
    /\ calc_log = <<>>
    /\ InitClientFrom({DefaultArgs}, CallbacksResolveFs)

BothResolveAuthToken(explicit_token, token_path) ==
    /\ Len(resolve_log) < MaxResolves
    /\ resolve_log' = Append(resolve_log,
           [fn |-> "auth_token",
            explicit |-> explicit_token, path |-> token_path,
            client |-> resolve_auth_token(fs, explicit_token, token_path),
            callbacks |-> DefaultCallbacks_resolve_auth_token(fs, explicit_token, token_path)])
    /\ UNCHANGED <<policy, others, call, calc_log, req, sent,
                   fs, args, client, scope, close_ran>>

BothResolveCaBundle(ca_bundle_path) ==
    /\ Len(resolve_log) < MaxResolves
    /\ resolve_log' = Append(resolve_log,
           [fn |-> "ca_bundle",
            explicit |-> PyNone, path |-> ca_bundle_path,
            client |-> resolve_ca_bundle(fs, ca_bundle_path),
            callbacks |-> DefaultCallbacks_resolve_ca_bundle(fs, ca_bundle_path)])
    /\ UNCHANGED <<policy, others, call, calc_log, req, sent,
                   fs, args, client, scope, close_ran>>

NextCallbacksResolve ==
    \/ \E x \in ExplicitTokens, p \in GivenTokenPaths : BothResolveAuthToken(x, p)
    \/ \E p \in GivenCaPaths : BothResolveCaBundle(p)

CallbacksResolveSpec == InitCallbacksResolve /\ [][NextCallbacksResolve]_vars

(* C30: the callbacks' resolvers agree with the client's except for one    *)
(* CA location: the same token always, the same CA bundle whenever the     *)
(* service account's service-ca.crt does not exist; when it exists and     *)
(* neither the explicit path nor the OpenShift anchor file does, the       *)
(* callbacks resolve it while the client resolves the Kubernetes ca.crt    *)
(* or None.                                                                *)
C30_CallbacksResolversAgree ==
    \A i \in 1 .. Len(resolve_log) :
        LET e == resolve_log[i]
        IN  /\ e.fn = "auth_token" => e.callbacks = e.client
            /\ e.fn = "ca_bundle" =>
                   /\ ~fs[openshift_sa_ca_path].exists => e.callbacks = e.client
                   /\ (/\ fs[openshift_sa_ca_path].exists
                       /\ ~GivenFileExists(e.path)
                       /\ ~fs[openshift_ca_path].exists) =>
                          /\ e.callbacks = Path(<<openshift_sa_ca_path>>)
                          /\ e.client = IF fs[kubernetes_ca_path].exists
                                        THEN Path(<<kubernetes_ca_path>>)
                                        ELSE PyNone

(* Both well-known service account files exist: the two resolvers part     *)
C30_Witness ==
    \E i \in 1 .. Len(resolve_log) :
        /\ resolve_log[i].fn = "ca_bundle"
        /\ resolve_log[i].path = Str(<<GivenCaPath>>)
        /\ ~fs[GivenCaPath].exists
        /\ fs[kubernetes_ca_path].exists
        /\ resolve_log[i].callbacks = Path(<<openshift_sa_ca_path>>)
        /\ resolve_log[i].client = Path(<<kubernetes_ca_path>>)

----------------------------------------------------------------------------
(* DefaultCallbacks: construction and the two reports                      *)

MaxReports == 2

JobId == "job-1"
EventsPath == <<"/api/v1/evaluations/jobs/", JobId, "/events">>

(* An exception raised while the event is built, before anything is sent   *)
BuildException == [kind |-> "Exception", status |-> 0]

(* DefaultCallbacks._create_http_client *)
DefaultCallbacks_create_http_client(insecure, auth_token, ca_bundle) ==
    [headers |-> IF truthy(auth_token) THEN {Authorization(auth_token)} ELSE {},
     verify |-> IF insecure THEN PyFalse
                ELSE IF truthy(ca_bundle) THEN Str(ca_bundle.chars)
                ELSE PyTrue,
     timeout |-> 30]

(* DefaultCallbacks.__init__; httpx_installed says whether import httpx    *)
(* succeeds                                                                *)
DefaultCallbacks_init(files, a, httpx_installed) ==
    LET sidecar_url == IF truthy(a.sidecar_url)
                       THEN Str(rstrip_slash(a.sidecar_url.chars))
                       ELSE PyNone
        auth_token == DefaultCallbacks_resolve_auth_token(files, a.auth_token, a.auth_token_path)
        ca_bundle == IF a.insecure
                     THEN PyNone
                     ELSE DefaultCallbacks_resolve_ca_bundle(files, a.ca_bundle_path)
        available == truthy(sidecar_url) /\ httpx_installed
    IN  [constructed |-> TRUE,
         sidecar_url |-> sidecar_url,
         auth_token |-> auth_token,
         ca_bundle |-> ca_bundle,
         httpx_available |-> available,
         http_client |-> IF available
                         THEN DefaultCallbacks_create_http_client(a.insecure, auth_token, ca_bundle)
                         ELSE PyNone,
         reports |-> <<>>]

(* if self.sidecar_url and self._httpx_available and self._http_client *)
sidecar_available(c) ==
    truthy(c.sidecar_url) /\ c.httpx_available /\ c.http_client # PyNone

(* Variant: a POST that failed for a retryable reason is sent once more *)
http_client_post_retried(c, o) ==
    LET post == [method |-> "POST", url |-> c.sidecar_url.chars \o EventsPath,
                 headers |-> c.http_client.headers,
                 verify |-> c.http_client.verify, timeout |-> 10]
    IN  IF o = BuildException THEN <<>>
        ELSE IF o \in {TimeoutException, RequestError, HTTPStatusError(500)}
             THEN <<post, post>>
             ELSE <<post>>

(* What self._http_client.post(url, json=data, timeout=10.0) puts on the   *)
(* wire in a report whose try block ends with o                            *)
http_client_post(c, o) ==
    IF o = BuildException
    THEN <<>>
    ELSE <<[method |-> "POST", url |-> c.sidecar_url.chars \o EventsPath,
            headers |-> c.http_client.headers,
            verify |-> c.http_client.verify, timeout |-> 10]>>

LogEntry(level, message) == [level |-> level, message |-> message]

(* Variant: only HTTP status errors are caught *)
report_status_catching_status_only(c, o) ==
    IF sidecar_available(c)
    THEN [outcome |-> o,
          posts |-> http_client_post(c, o),
          log |-> IF o.kind = "Response"
                  THEN <<LogEntry("debug", "Status update sent to evalhub")>>
                  ELSE IF o.kind = "HTTPStatusError" /\ o.status = 401
                  THEN <<LogEntry("error", "Authentication failed (401)"),
                         LogEntry("info", "Status")>>
                  ELSE IF o.kind = "HTTPStatusError" /\ o.status = 403
                  THEN <<LogEntry("error", "Authorization failed (403)"),
                         LogEntry("info", "Status")>>
                  ELSE IF o.kind = "HTTPStatusError"
                  THEN <<LogEntry("warning", "Failed to send status to evalhub"),
                         LogEntry("info", "Status")>>
                  ELSE <<>>,
          raised |-> IF o.kind \in {"Response", "HTTPStatusError"} THEN None ELSE o]
    ELSE [outcome |-> None, posts |-> <<>>,
          log |-> <<LogEntry("info", "Status")>>, raised |-> None]

(* DefaultCallbacks.report_status, its try block ending with o: the        *)
(* response, or the exception raised in it                                 *)
report_status(c, o) ==
    IF sidecar_available(c)
    THEN [outcome |-> o,
          posts |-> http_client_post(c, o),
          log |-> IF o.kind = "Response"
                  THEN <<LogEntry("debug", "Status update sent to evalhub")>>
                  ELSE IF o.kind = "HTTPStatusError" /\ o.status = 401
                  THEN <<LogEntry("error", "Authentication failed (401)"),
                         LogEntry("info", "Status")>>
                  ELSE IF o.kind = "HTTPStatusError" /\ o.status = 403
                  THEN <<LogEntry("error", "Authorization failed (403)"),
                         LogEntry("info", "Status")>>
                  ELSE <<LogEntry("warning", "Failed to send status to evalhub"),
                         LogEntry("info", "Status")>>,
          raised |-> None]
    ELSE [outcome |-> None, posts |-> <<>>,
          log |-> <<LogEntry("info", "Status")>>, raised |-> None]

(* DefaultCallbacks.report_results *)
report_results(c, o) ==
    IF sidecar_available(c)
    THEN [outcome |-> o,
          posts |-> http_client_post(c, o),
          log |-> IF o.kind = "Response"
                  THEN <<LogEntry("info", "Results reported to evalhub"),
                         LogEntry("info", "Job completed")>>
                  ELSE <<LogEntry("error", "Failed to send results to evalhub"),
                         LogEntry("info", "Job completed")>>,
          raised |-> None]
    ELSE [outcome |-> None, posts |-> <<>>,
          log |-> <<LogEntry("info", "Job completed")>>, raised |-> None]

----------------------------------------------------------------------------
(* A DefaultCallbacks object and the reports of one job                    *)

SidecarUrls == {PyNone, Str(<<>>), Str(LocalUrl), Str(LocalUrl \o <<"/">>)}

CallbacksArgs ==
    [sidecar_url : SidecarUrls,
     auth_token : {PyNone, Str(<<"tokA">>)},
     auth_token_path : {PyNone},
     ca_bundle_path : {PyNone},
     insecure : Booleans]

CallbacksFs ==
    {f \in CallbacksResolveFs :
        /\ f[GivenTokenPath] = NoFile
        /\ f[default_token_path] \in {NoFile, File(<<" ", "tokB", "\n">>)}
        /\ \A p \in CaPaths : f[p] = NoFile}

ReportOutcomes == TransportOutcomes \cup {BuildException}

InitCallbacks ==
    /\ max_retries = DefaultMaxRetries
    /\ retry_initial_delay = 1
    /\ retry_max_delay = 60
    /\ retry_backoff_log2 = 1
    /\ retry_randomization = TRUE
    /\ InitCall
    /\ calc_log = <<>>
    /\ calls = NoCalls
    /\ thread = NoThread
    /\ InitClientAlone({DefaultArgs}, CallbacksFs)
    /\ \E a \in CallbacksArgs, httpx_installed \in Booleans :
           cb = DefaultCallbacks_init(fs, a, httpx_installed)

(* One call of a report method, from its first line to its return *)
Report(method, r) ==
    /\ Len(cb.reports) < MaxReports
    /\ sent' = sent \o r.posts
    /\ log' = log \o r.log
    /\ cb' = [cb EXCEPT !.reports = Append(@,
                  [method |-> method, outcome |-> r.outcome,
                   posts |-> Len(r.posts), log |-> r.log, raised |-> r.raised])]
    /\ UNCHANGED <<policy, calls, thread, state, attempt, last_exception,
                   outcomes, waits, result, calc_log, req, lifecycle>>

ReportStatus(o) == Report("report_status", report_status(cb, o))

ReportResults(o) == Report("report_results", report_results(cb, o))

NextCallbacks ==
    \/ \E o \in ReportOutcomes : ReportStatus(o)
    \/ \E o \in ReportOutcomes : ReportResults(o)

CallbacksSpec == InitCallbacks /\ [][NextCallbacks]_vars

----------------------------------------------------------------------------
(* Properties of the reports, under CallbacksSpec *)

Reports(method) ==
    {i \in 1 .. Len(cb.reports) : cb.reports[i].method = method}

LocalStatusLine == LogEntry("info", "Status")

Lines(entries) == {entries[k] : k \in 1 .. Len(entries)}

(* The claim as the specification states it: a report whose POST failed    *)
(* for a retryable reason was sent again                                   *)
C25_FailedReportRetried ==
    \A i \in 1 .. Len(cb.reports) :
        IsRetryable(cb.reports[i].outcome) => cb.reports[i].posts > 1

(* C25: the callbacks do not report through the Request Engine: a status   *)
(* or result report makes one POST with the callbacks' own HTTP client,    *)
(* and a POST that fails with a timeout, a 5xx status or a connection      *)
(* error is not retried: one attempt whatever max_retries is, no delay     *)
(* computed and no wait, before the report is given up.                    *)
C25_FailedReportPostedOnce ==
    /\ \A i \in 1 .. Len(cb.reports) :
           /\ cb.reports[i].posts <= 1
           /\ IsRetryable(cb.reports[i].outcome) =>
                  /\ cb.reports[i].posts = 1
                  /\ cb.reports[i].posts < max_retries + 1
    /\ Len(sent) <= Len(cb.reports)
    /\ waits = <<>>
    /\ calc_log = <<>>
    /\ attempt = 0

(* A status report timed out and a result report met a 500: two POSTs *)
C25_Witness ==
    /\ Len(cb.reports) = 2
    /\ cb.reports[1].method = "report_status"
    /\ cb.reports[1].outcome = TimeoutException
    /\ cb.reports[2].method = "report_results"
    /\ cb.reports[2].outcome = HTTPStatusError(500)
    /\ Len(sent) = 2

----------------------------------------------------------------------------
(* _request of the two classes, each translated from its own text, as      *)
(* functions of the policy and of the locals of one call.  holds_thread    *)
(* says whether the call keeps its thread where it stands: an await gives  *)
(* the thread back to the event loop, a blocking call does not.            *)

retry_policy ==
    [max_retries |-> max_retries,
     retry_initial_delay |-> retry_initial_delay,
     retry_max_delay |-> retry_max_delay,
     retry_backoff_log2 |-> retry_backoff_log2,
     retry_randomization |-> retry_randomization]

(* A call that has not been made yet *)
NoCall(class) ==
    [class |-> class, state |-> "idle", attempt |-> 0,
     last_exception |-> None, outcomes |-> <<>>, waits |-> <<>>,
     result |-> None, holds_thread |-> FALSE, asleep_at_start |-> {}]

(* BaseAsyncClient._request is entered: last_exception = None, and the for    *)
(* loop takes its first value or, with an empty range, ends at once        *)
BaseAsyncClient_request(pol, c) ==
    IF 0 < pol.max_retries + 1
    THEN [c EXCEPT !.state = "ATTEMPTING", !.attempt = 0,
                   !.last_exception = None, !.holds_thread = FALSE]
    ELSE [c EXCEPT !.state = "FATAL_FAILURE", !.result = RuntimeError,
                   !.holds_thread = FALSE]

(* Variant: the wait is time.sleep(delay), which keeps the thread *)
BaseAsyncClient_attempt_blocking_sleep(pol, c, o, u) ==
    LET seen == [c EXCEPT !.outcomes = Append(@, o)]
        delay == calculate_retry_delay(c.attempt, pol.retry_initial_delay,
                                       pol.retry_max_delay, pol.retry_backoff_log2,
                                       pol.retry_randomization, u)
        retried == /\ c.attempt # pol.max_retries
                   /\ \/ o.kind \in {"TimeoutException", "RequestError"}
                      \/ o.kind = "HTTPStatusError" /\ o.status >= 500
    IN  IF o.kind = "Response"
        THEN [seen EXCEPT !.state = "SUCCESS", !.result = o, !.holds_thread = FALSE]
        ELSE IF ~retried
        THEN [seen EXCEPT !.state = "FATAL_FAILURE", !.result = o,
                          !.last_exception = IF caught(o) THEN o ELSE @,
                          !.holds_thread = FALSE]
        ELSE IF delay.exc # NoException
        THEN [seen EXCEPT !.state = "FATAL_FAILURE", !.last_exception = o,
                          !.result = OverflowError, !.holds_thread = FALSE]
        ELSE [seen EXCEPT !.state = "SUSPENDED", !.last_exception = o,
                          !.waits = Append(@, [attempt |-> c.attempt,
                                               delay |-> delay.delay]),
                          !.holds_thread = TRUE]

(* One pass of the loop body of BaseAsyncClient._request: await self._client.request(...), *)
(* raise_for_status(), and the except clause that catches o, up to         *)
(* await asyncio.sleep(delay)                                                *)
BaseAsyncClient_attempt(pol, c, o, u) ==
    LET seen == [c EXCEPT !.outcomes = Append(@, o)]
        raise(e) == [seen EXCEPT !.state = "FATAL_FAILURE", !.result = e,
                                 !.holds_thread = FALSE]
        delay == calculate_retry_delay(c.attempt, pol.retry_initial_delay,
                                       pol.retry_max_delay, pol.retry_backoff_log2,
                                       pol.retry_randomization, u)
        sleep(e) ==
            IF delay.exc # NoException
            THEN [seen EXCEPT !.state = "FATAL_FAILURE", !.last_exception = e,
                              !.result = OverflowError, !.holds_thread = FALSE]
            ELSE [seen EXCEPT !.state = "SUSPENDED", !.last_exception = e,
                              !.waits = Append(@, [attempt |-> c.attempt,
                                                   delay |-> delay.delay]),
                              !.holds_thread = FALSE]
    IN  CASE o.kind = "Response" ->
               [seen EXCEPT !.state = "SUCCESS", !.result = o,
                            !.holds_thread = FALSE]
          [] o.kind = "TimeoutException" ->
               IF c.attempt = pol.max_retries
               THEN [raise(o) EXCEPT !.last_exception = o]
               ELSE sleep(o)
          [] o.kind = "HTTPStatusError" ->
               IF o.status = 401 THEN [raise(o) EXCEPT !.last_exception = o]
               ELSE IF o.status = 403 THEN [raise(o) EXCEPT !.last_exception = o]
               ELSE IF o.status < 500 \/ c.attempt = pol.max_retries
               THEN [raise(o) EXCEPT !.last_exception = o]
               ELSE sleep(o)
          [] o.kind = "RequestError" ->
               IF c.attempt = pol.max_retries
               THEN [raise(o) EXCEPT !.last_exception = o]
               ELSE sleep(o)
          [] OTHER -> raise(o)

(* await asyncio.sleep(delay) returns: the for loop of BaseAsyncClient._request    *)
(* takes its next value, or ends and the statements after it raise         *)
BaseAsyncClient_wake(pol, c) ==
    IF c.attempt + 1 < pol.max_retries + 1
    THEN [c EXCEPT !.state = "ATTEMPTING", !.attempt = c.attempt + 1,
                   !.holds_thread = FALSE]
    ELSE [c EXCEPT !.state = "FATAL_FAILURE",
                   !.result = IF c.last_exception # None
                              THEN c.last_exception ELSE RuntimeError,
                   !.holds_thread = FALSE]

(* BaseSyncClient._request is entered: last_exception = None, and the for    *)
(* loop takes its first value or, with an empty range, ends at once        *)
BaseSyncClient_request(pol, c) ==
    IF 0 < pol.max_retries + 1
    THEN [c EXCEPT !.state = "ATTEMPTING", !.attempt = 0,
                   !.last_exception = None, !.holds_thread = TRUE]
    ELSE [c EXCEPT !.state = "FATAL_FAILURE", !.result = RuntimeError,
                   !.holds_thread = FALSE]

(* Variant: the last retry is given up, attempt + 1 == self.max_retries *)
BaseSyncClient_attempt_one_retry_less(pol, c, o, u) ==
    LET seen == [c EXCEPT !.outcomes = Append(@, o)]
        delay == calculate_retry_delay(c.attempt, pol.retry_initial_delay,
                                       pol.retry_max_delay, pol.retry_backoff_log2,
                                       pol.retry_randomization, u)
        retried == /\ c.attempt # pol.max_retries
                   /\ c.attempt + 1 # pol.max_retries
                   /\ \/ o.kind \in {"TimeoutException", "RequestError"}
                      \/ o.kind = "HTTPStatusError" /\ o.status >= 500
    IN  IF o.kind = "Response"
        THEN [seen EXCEPT !.state = "SUCCESS", !.result = o, !.holds_thread = FALSE]
        ELSE IF ~retried
        THEN [seen EXCEPT !.state = "FATAL_FAILURE", !.result = o,
                          !.last_exception = IF caught(o) THEN o ELSE @,
                          !.holds_thread = FALSE]
        ELSE IF delay.exc # NoException
        THEN [seen EXCEPT !.state = "FATAL_FAILURE", !.last_exception = o,
                          !.result = OverflowError, !.holds_thread = FALSE]
        ELSE [seen EXCEPT !.state = "SUSPENDED", !.last_exception = o,
                          !.waits = Append(@, [attempt |-> c.attempt,
                                               delay |-> delay.delay]),
                          !.holds_thread = TRUE]

(* One pass of the loop body of BaseSyncClient._request: self._client.request(...), *)
(* raise_for_status(), and the except clause that catches o, up to         *)
(* time.sleep(delay)                                                *)
BaseSyncClient_attempt(pol, c, o, u) ==
    LET seen == [c EXCEPT !.outcomes = Append(@, o)]
        raise(e) == [seen EXCEPT !.state = "FATAL_FAILURE", !.result = e,
                                 !.holds_thread = FALSE]
        delay == calculate_retry_delay(c.attempt, pol.retry_initial_delay,
                                       pol.retry_max_delay, pol.retry_backoff_log2,
                                       pol.retry_randomization, u)
        sleep(e) ==
            IF delay.exc # NoException
            THEN [seen EXCEPT !.state = "FATAL_FAILURE", !.last_exception = e,
                              !.result = OverflowError, !.holds_thread = FALSE]
            ELSE [seen EXCEPT !.state = "SUSPENDED", !.last_exception = e,
                              !.waits = Append(@, [attempt |-> c.attempt,
                                                   delay |-> delay.delay]),
                              !.holds_thread = TRUE]
    IN  CASE o.kind = "Response" ->
               [seen EXCEPT !.state = "SUCCESS", !.result = o,
                            !.holds_thread = FALSE]
          [] o.kind = "TimeoutException" ->
               IF c.attempt = pol.max_retries
               THEN [raise(o) EXCEPT !.last_exception = o]
               ELSE sleep(o)
          [] o.kind = "HTTPStatusError" ->
               IF o.status = 401 THEN [raise(o) EXCEPT !.last_exception = o]
               ELSE IF o.status = 403 THEN [raise(o) EXCEPT !.last_exception = o]
               ELSE IF o.status < 500 \/ c.attempt = pol.max_retries
               THEN [raise(o) EXCEPT !.last_exception = o]
               ELSE sleep(o)
          [] o.kind = "RequestError" ->
               IF c.attempt = pol.max_retries
               THEN [raise(o) EXCEPT !.last_exception = o]
               ELSE sleep(o)
          [] OTHER -> raise(o)

(* time.sleep(delay) returns: the for loop of BaseSyncClient._request    *)
(* takes its next value, or ends and the statements after it raise         *)
BaseSyncClient_wake(pol, c) ==
    IF c.attempt + 1 < pol.max_retries + 1
    THEN [c EXCEPT !.state = "ATTEMPTING", !.attempt = c.attempt + 1,
                   !.holds_thread = TRUE]
    ELSE [c EXCEPT !.state = "FATAL_FAILURE",
                   !.result = IF c.last_exception # None
                              THEN c.last_exception ELSE RuntimeError,
                   !.holds_thread = FALSE]

(* The method of the class the call was made on *)
request_of(pol, c) ==
    IF c.class = "BaseAsyncClient" THEN BaseAsyncClient_request(pol, c)
    ELSE BaseSyncClient_request(pol, c)

attempt_of(pol, c, o, u) ==
    IF c.class = "BaseAsyncClient" THEN BaseAsyncClient_attempt(pol, c, o, u)
    ELSE BaseSyncClient_attempt(pol, c, o, u)

wake_of(pol, c) ==
    IF c.class = "BaseAsyncClient" THEN BaseAsyncClient_wake(pol, c)
    ELSE BaseSyncClient_wake(pol, c)

----------------------------------------------------------------------------
(* One call on a BaseAsyncClient and one on a BaseSyncClient with the same *)
(* policy, whose transports answer alike and whose random draws are alike  *)

EquivMaxDelays == {3, 60}
EquivBackoffLog2s == {1, DBL_MAX_EXP \div 2}

InitEquiv ==
    /\ max_retries \in MaxRetriesValues
    /\ retry_initial_delay = 1
    /\ retry_max_delay \in EquivMaxDelays
    /\ retry_backoff_log2 \in EquivBackoffLog2s
    /\ retry_randomization \in Booleans
    /\ InitCall
    /\ calc_log = <<>>
    /\ InitClientAlone({DefaultArgs}, {EmptyFs})
    /\ calls = <<NoCall("BaseAsyncClient"), NoCall("BaseSyncClient")>>
    /\ thread = NoThread
    /\ cb = NoCallbacks

unchanged_but_calls ==
    UNCHANGED <<policy, call, calc_log, req, sent, lifecycle, thread, cb>>

(* _request is called on both clients *)
BothRequest ==
    /\ \A i \in DOMAIN calls : calls[i].state = "idle"
    /\ calls' = [i \in DOMAIN calls |-> request_of(retry_policy, calls[i])]
    /\ unchanged_but_calls

(* Both transports answer o, and random.random() returns u in both *)
BothAttempt(o, u) ==
    /\ \E i \in DOMAIN calls : calls[i].state = "ATTEMPTING"
    /\ retry_randomization \/ u = 0
    /\ calls' = [i \in DOMAIN calls |->
                    IF calls[i].state = "ATTEMPTING"
                    THEN attempt_of(retry_policy, calls[i], o, u)
                    ELSE calls[i]]
    /\ unchanged_but_calls

(* Both sleeps end *)
BothWake ==
    /\ \E i \in DOMAIN calls : calls[i].state = "SUSPENDED"
    /\ calls' = [i \in DOMAIN calls |->
                    IF calls[i].state = "SUSPENDED"
                    THEN wake_of(retry_policy, calls[i])
                    ELSE calls[i]]
    /\ unchanged_but_calls

NextEquiv ==
    \/ BothRequest
    \/ \E o \in TransportOutcomes, u \in JitterDraws : BothAttempt(o, u)
    \/ BothWake

EquivSpec == InitEquiv /\ [][NextEquiv]_vars

(* C21: for the same policy and the same sequence of transport outcomes    *)
(* the synchronous and the asynchronous _request make the same number of   *)
(* attempts, wait the same delays after the same attempt indices and end   *)
(* with the same outcome.                                                  *)
C21_SyncAsyncEquivalent ==
    /\ calls[1].class = "BaseAsyncClient"
    /\ calls[2].class = "BaseSyncClient"
    /\ calls[1].state = calls[2].state
    /\ calls[1].attempt = calls[2].attempt
    /\ Len(calls[1].outcomes) = Len(calls[2].outcomes)
    /\ calls[1].waits = calls[2].waits
    /\ calls[1].result = calls[2].result
    /\ calls[1].last_exception = calls[2].last_exception

(* A timeout, a 500 and a connection error, each waited for, then 404:     *)
(* both calls made four attempts and raised the 404                        *)
C21_Witness ==
    /\ calls[1].outcomes = <<TimeoutException, HTTPStatusError(500),
                             RequestError, HTTPStatusError(404)>>
    /\ calls[2].outcomes = calls[1].outcomes
    /\ calls[2].state = "FATAL_FAILURE"
    /\ calls[2].result = HTTPStatusError(404)
    /\ Len(calls[2].waits) = 3
    /\ calls[1].waits = calls[2].waits

----------------------------------------------------------------------------
(* Several calls of _request on one client, all made from one thread: the  *)
(* thread of the event loop for a BaseAsyncClient, the caller's thread for *)
(* a BaseSyncClient.  thread is the call that keeps the thread.            *)

MaxCalls == 2

CallIds == 1 .. MaxCalls
ClientClasses == {"BaseAsyncClient", "BaseSyncClient"}
ConcurrentRetries == -1 .. 2

InitConcurrent ==
    /\ max_retries \in ConcurrentRetries
    /\ retry_initial_delay = 1
    /\ retry_max_delay = 60
    /\ retry_backoff_log2 = 1
    /\ retry_randomization = FALSE
    /\ InitCall
    /\ calc_log = <<>>
    /\ InitClientAlone({DefaultArgs}, {EmptyFs})
    /\ \E class \in ClientClasses : calls = [i \in CallIds |-> NoCall(class)]
    /\ thread = NoThread
    /\ cb = NoCallbacks

(* The thread after a step of call i *)
thread_after(c, i) == IF c.holds_thread THEN i ELSE NoThread

Asleep == {j \in CallIds : calls[j].state = "SUSPENDED"}

(* Call i is made, when the thread is free to make it *)
CallRequest(i) ==
    /\ calls[i].state = "idle"
    /\ thread = NoThread
    /\ LET c == [request_of(retry_policy, calls[i]) EXCEPT !.asleep_at_start = Asleep]
       IN  /\ calls' = [calls EXCEPT ![i] = c]
           /\ thread' = thread_after(c, i)
    /\ UNCHANGED <<policy, call, calc_log, req, sent, lifecycle, cb>>

(* Variant: the attempt counter is the client's, counting the requests of  *)
(* every call                                                              *)
CallAttempt_counter_on_client(i, o, u) ==
    /\ calls[i].state = "ATTEMPTING"
    /\ thread \in {NoThread, i}
    /\ retry_randomization \/ u = 0
    /\ LET c == attempt_of(retry_policy,
                           [calls[i] EXCEPT !.attempt = Len(sent)], o, u)
       IN  /\ calls' = [calls EXCEPT ![i] = c]
           /\ thread' = thread_after(c, i)
    /\ sent' = Append(sent, client_request(client, fs, "GET",
                                           client.api_base \o JobsPath))
    /\ UNCHANGED <<policy, call, calc_log, req, lifecycle, cb>>

(* The transport answers call i, which runs on to its sleep or to its end  *)
CallAttempt(i, o, u) ==
    /\ calls[i].state = "ATTEMPTING"
    /\ thread \in {NoThread, i}
    /\ retry_randomization \/ u = 0
    /\ LET c == attempt_of(retry_policy, calls[i], o, u)
       IN  /\ calls' = [calls EXCEPT ![i] = c]
           /\ thread' = thread_after(c, i)
    /\ sent' = Append(sent, client_request(client, fs, "GET",
                                           client.api_base \o JobsPath))
    /\ UNCHANGED <<policy, call, calc_log, req, lifecycle, cb>>

(* The sleep of call i is over *)
CallWake(i) ==
    /\ calls[i].state = "SUSPENDED"
    /\ thread \in {NoThread, i}
    /\ LET c == wake_of(retry_policy, calls[i])
       IN  /\ calls' = [calls EXCEPT ![i] = c]
           /\ thread' = thread_after(c, i)
    /\ UNCHANGED <<policy, call, calc_log, req, sent, lifecycle, cb>>

NextConcurrent ==
    \/ \E i \in CallIds : CallRequest(i)
    \/ \E i \in CallIds, o \in ClientOutcomes, u \in JitterDraws : CallAttempt(i, o, u)
    \/ \E i \in CallIds : CallWake(i)

ConcurrentSpec == InitConcurrent /\ [][NextConcurrent]_vars

----------------------------------------------------------------------------
(* Properties of concurrent calls, under ConcurrentSpec *)

CanStep(j) ==
    \/ ENABLED CallRequest(j)
    \/ ENABLED CallAttempt(j, Response(200), 0)
    \/ ENABLED CallWake(j)

Over(c) == c.state \in {"SUCCESS", "FATAL_FAILURE"}

(* C22: the wait before a retry of the asynchronous client is a suspension *)
(* point: while one call sleeps another call on the same client and event  *)
(* loop can start, attempt and complete; the wait of the synchronous       *)
(* client blocks the calling thread.                                       *)
C22_AsyncWaitSuspends ==
    \A i \in CallIds :
        calls[i].state = "SUSPENDED" =>
            IF calls[i].class = "BaseAsyncClient"
            THEN /\ thread = NoThread
                 /\ \A j \in CallIds \ {i} : ~Over(calls[j]) => CanStep(j)
            ELSE /\ thread = i
                 /\ \A j \in CallIds \ {i} :
                        /\ ~CanStep(j)
                        /\ calls[j].state = "idle" \/ Over(calls[j])
                        /\ calls[j].asleep_at_start = {}

(* Call 2 was made while call 1 was in its first sleep and has returned;   *)
(* call 1 is still in that sleep                                           *)
C22_Witness ==
    /\ calls[1].class = "BaseAsyncClient"
    /\ calls[1].state = "SUSPENDED"
    /\ Len(calls[1].waits) = 1
    /\ calls[2].asleep_at_start = {1}
    /\ calls[2].state = "SUCCESS"
    /\ Len(calls[2].outcomes) = 1

WaitIndices(c) == [k \in 1 .. Len(c.waits) |-> c.waits[k].attempt]

(* What a call's own outcomes decide *)
Course(c) ==
    <<WaitIndices(c), c.last_exception,
      IF retry_randomization THEN <<>> ELSE c.waits,
      IF Over(c) THEN <<c.state, c.result>> ELSE <<>>>>

(* C23: concurrent calls share no retry state: the attempt counter, the    *)
(* delay schedule and the outcome of each call depend only on that call's  *)
(* own outcomes, each call makes at most max_retries + 1 attempts, and a   *)
(* step of one call changes neither another call nor the policy.           *)
C23_CallsShareNoRetryState ==
    /\ [](\A i \in CallIds :
             /\ Len(calls[i].outcomes) <= max_retries + 1
             /\ Len(calls[i].outcomes) \in {calls[i].attempt, calls[i].attempt + 1}
             /\ WaitIndices(calls[i]) = [k \in 1 .. Len(calls[i].waits) |-> k - 1]
             /\ \A j \in CallIds :
                    calls[i].outcomes = calls[j].outcomes /\ calls[i].outcomes # <<>>
                        => Course(calls[i]) = Course(calls[j]))
    /\ [][/\ policy' = policy
          /\ \A i \in CallIds :
                 calls'[i] # calls[i] =>
                     \A j \in CallIds \ {i} : calls'[j] = calls[j]]_vars

(* Two interleaved calls with one retry each: call 1 used up its budget on *)
(* two timeouts, call 2, made while call 1 slept, timed out once and then  *)
(* returned                                                                *)
C23_Witness ==
    /\ max_retries = 1
    /\ calls[1].outcomes = <<TimeoutException, TimeoutException>>
    /\ calls[1].state = "FATAL_FAILURE"
    /\ calls[2].asleep_at_start = {1}
    /\ calls[2].outcomes = <<TimeoutException, Response(200)>>
    /\ calls[2].state = "SUCCESS"
    /\ Len(calls[2].waits) = 1

====
